---------------------------- MODULE Spec2Model ----------------------------
(***************************************************************************)
(* Model of the SentiTrade frontend signal path:                          *)
(*   hooks/useSignal.ts      (src/unnamed/part_007)                        *)
(*   hooks/useWebSocket.ts                                                 *)
(*   components/TradingSignal.tsx, components/dashboard/PatternRadar.tsx   *)
(*   components/PriceChart.tsx (divergence markers)                        *)
(* The backend signal generator is not part of the sources; it is modelled *)
(* from the specification (sections 3 and 4.4).                            *)
(***************************************************************************)
EXTENDS Integers, Sequences, FiniteSets, TLC

(***************************************************************************)
(* Bounds of the model.                                                    *)
(***************************************************************************)
\* last value of the wall clock (in clock units of TickMs milliseconds)
MaxNow == 2
\* number of signals the backend generates in one behaviour
MaxSignals == 2
\* capacity of the modelled WebSocket pipe (messages in flight)
MaxInflight == 1

(***************************************************************************)
(* Time.  One clock unit is TickMs milliseconds, so that the whole-second  *)
(* truncation of the countdown (Math.floor(ms / 1000)) stays visible.      *)
(***************************************************************************)
\* setInterval(..., 1000) period and the divisor of Math.floor((expiryTime - now) / 1000)
SecondMs == 1000
\* the clock unit: half a second
TickMs == SecondMs \div 2
\* 30 * 60 * 1000 ms, the mock signal's time to live, in clock units
MockTtl == (30 * 60 * 1000) \div TickMs
\* Date.now() when the useSignal module is evaluated
ModuleLoadTime == 0
\* time-to-live values the backend may give a signal, in clock units
SignalTtls == {2}

\* null (a record, so that it compares with signals and messages)
None == [signal_id |-> "null"]
NoAsset == "undefined"
Assets == {"BTC/USDT", "ETH/USDT"}
Card == "TradingSignal"
Radar == "PatternRadar"
Observers == {Card, Radar}

\* useSignal() is called without an argument by both components
asset == [o \in Observers |-> NoAsset]

(***************************************************************************)
(* Signals.  Prices are in cents.                                          *)
(***************************************************************************)
MOCK_SIGNAL_BadStop ==
    [signal_id |-> "mock-signal-001", asset_code |-> "BTC/USDT", action |-> "BUY",
     confidence |-> 87, entry_price |-> 4285050, stop_loss |-> 4350000,
     take_profit |-> 4550000, position_size_percent |-> 250,
     risk_reward_ratio |-> 196, expires_at |-> ModuleLoadTime + MockTtl]

MOCK_SIGNAL ==
    [signal_id |-> "mock-signal-001", asset_code |-> "BTC/USDT", action |-> "BUY",
     confidence |-> 87, entry_price |-> 4285050, stop_loss |-> 4150000,
     take_profit |-> 4550000, position_size_percent |-> 250,
     risk_reward_ratio |-> 196, expires_at |-> ModuleLoadTime + MockTtl]

SignalIds == [n \in 1..(MaxSignals + 1) |-> IF n = 1 THEN "sig-1" ELSE IF n = 2 THEN "sig-2"
                                            ELSE IF n = 3 THEN "sig-3" ELSE "sig-4"]

\* The backend's signal for a trigger (specification 3 and 4.4): entry is the
\* last price, stop and target lie on opposite sides of it, and the signal
\* expires a time-to-live after its creation.
GenerateSignal(n, a, act, t, ttl) ==
    [signal_id |-> SignalIds[n], asset_code |-> a, action |-> act,
     confidence |-> 80, entry_price |-> 10000,
     stop_loss |-> IF act = "BUY" THEN 9500 ELSE 10500,
     take_profit |-> IF act = "BUY" THEN 11000 ELSE 9000,
     position_size_percent |-> 200, risk_reward_ratio |-> 200,
     created_at |-> t, expires_at |-> t + ttl]

\* Creation time of a signal: the Signal interface has no created_at; the
\* mock is created when the module is evaluated.
CreatedAt(s) == IF s.signal_id = "mock-signal-001" THEN ModuleLoadTime ELSE s.created_at

VARIABLES
    now,            \* Date.now(), in clock units
    serverSignal,   \* backend: the latest generated signal, or None
    nextId,         \* backend: number of the next signal
    inflight,       \* WebSocket: messages sent by the backend, not yet received
    signal,         \* useSignal: signal state of each consumer
    loading,        \* useSignal: loading state of each consumer
    fetchPending,   \* useSignal: fetchLatestSignal awaits apiClient.get
    eventHandlers,  \* useWebSocket: handlers registered per event name
    lastMessage,    \* useWebSocket: lastMessage state
    lastTick,       \* useWebSocket: lastTick state
    allTicks,       \* useWebSocket: allTicks state
    dismissed,      \* TradingSignal: dismissed state
    timeLeft,       \* TradingSignal: timeLeft state
    effectSignal,   \* TradingSignal: signal the countdown effect last ran for
    intervals,      \* TradingSignal: pending setInterval timers
    lastClick,      \* the button of the card the user clicked last, and the signal shown then
    chartData,      \* PriceChart: the data prop (indexed from 0)
    markers,        \* PriceChart: the value of the divergences memo
    chartPc,        \* PriceChart: "idle", "render" (memo to be computed), "done"
    inputs,         \* PositionCalculator: inputs state
    result,         \* PositionCalculator: result state, or NoResult
    calcLoading,    \* PositionCalculator: loading state
    posts,          \* PositionCalculator: bodies of the POSTs that calculate awaits
    backtest,       \* BacktestResults: loading, stats, days and the request awaited
    hook,           \* a useSignal(asset) instance: asset, signal, loading and its fetches
    alerts,         \* useAlerts: preferences, loading, the server's preferences, requests
    thoughts,       \* the lengths of the thoughts logs of SentiQuantConsole and
                    \* SentiQuantPage, and isProcessing of the page
    manager,        \* WebSocketManager: ws, reconnectAttempts, its sockets and timers
    gws,            \* useWebSocket: globalWs, globalConnected, reconnectTimeoutId,
                    \* the sockets and timers, and connected of a mounted hook
    settings        \* useSettings: the server's settings, the state of the hook in
                    \* GuardianSettings and in SentimentTuning, the requests awaited

wsVars == <<lastMessage, lastTick, allTicks>>
hookVars == <<signal, loading, fetchPending, eventHandlers>>
cardVars == <<dismissed, timeLeft, effectSignal, intervals, lastClick>>
serverVars == <<serverSignal, nextId>>
signalVars == <<now, serverVars, inflight, hookVars, wsVars, cardVars>>
chartVars == <<chartData, markers, chartPc>>
\* the state outside the signal path
calcVars == <<inputs, result, calcLoading, posts>>
\* the state of the other components and hooks
pageVars == <<backtest, hook, alerts, thoughts, manager, gws, settings>>
nonSignalVars == <<chartVars, calcVars, pageVars>>
vars == <<signalVars, chartVars, calcVars, pageVars>>


(***************************************************************************)
(* useWebSocket: the module-level event bus.                               *)
(***************************************************************************)
Events == {"connect", "disconnect", "message", "sentiment:update", "signal:update",
           "divergence:update", "whales:update", "price:update", "signal:new"}

MessageTypes == {"sentiment", "signal", "divergence", "whale", "price"}

\* onmessage: the event a parsed message is emitted under, by its type
EventOf(type) ==
    IF type = "sentiment" THEN "sentiment:update"
    ELSE IF type = "signal" THEN "signal:update"
    ELSE IF type = "divergence" THEN "divergence:update"
    ELSE IF type = "whale" THEN "whales:update"
    ELSE "price:update"

NewSignalAnyAsset(a, newSignal, cur) == newSignal

\* handleNewSignal of a hook called with asset a: the signal state after it
NewSignalFor(a, newSignal, cur) ==
    IF a = NoAsset \/ newSignal.asset_code = a THEN newSignal ELSE cur

\* handleNewSignal of consumer o, called with newSignal: the signal state after it
handleNewSignal(o, newSignal, cur) == NewSignalFor(asset[o], newSignal, cur)

\* emit(event, data), as far as it reaches the signal state of the consumers
EmitSignal(event, data, sig) ==
    [o \in Observers |->
        IF [fn |-> "handleNewSignal", owner |-> o] \in eventHandlers[event]
        THEN handleNewSignal(o, data, sig[o])
        ELSE sig[o]]

\* handleMessage of useWebSocket (every hook instance registers the same
\* handler and holds the same values, so one copy of the state is kept)
handleMessage(data) ==
    /\ lastMessage' = data
    /\ IF data.asset # NoAsset
       THEN /\ lastTick' = data
            /\ allTicks' = [allTicks EXCEPT ![data.asset] = data]
       ELSE UNCHANGED <<lastTick, allTicks>>

\* emit('message', data), as far as it reaches the useWebSocket state
EmitMessage(data) ==
    IF \E h \in eventHandlers["message"] : h.fn = "handleMessage"
    THEN handleMessage(data)
    ELSE UNCHANGED wsVars

(***************************************************************************)
(* Initial state: both components are mounted; each useSignal effect has   *)
(* called fetchLatestSignal (request in flight) and on('signal:new', ...), *)
(* each useWebSocket effect has registered handleMessage.                  *)
(***************************************************************************)
SignalInit ==
    /\ now = ModuleLoadTime
    /\ serverSignal = None
    /\ nextId = 1
    /\ inflight = << >>
    /\ signal = [o \in Observers |-> None]
    /\ loading = [o \in Observers |-> TRUE]
    /\ fetchPending = [o \in Observers |-> TRUE]
    /\ eventHandlers =
          [e \in Events |->
              IF e = "signal:new"
              THEN {[fn |-> "handleNewSignal", owner |-> o] : o \in Observers}
              ELSE IF e = "message"
              THEN {[fn |-> "handleMessage", owner |-> o] : o \in Observers}
              ELSE {}]
    /\ lastMessage = None
    /\ lastTick = None
    /\ allTicks = [a \in Assets |-> None]
    /\ dismissed = FALSE
    /\ timeLeft = 0
    /\ effectSignal = None
    /\ intervals = {}
    /\ lastClick = [button |-> "none", signal_id |-> None.signal_id]

\* no chart is rendered
ChartIdle ==
    /\ chartData = << >>
    /\ markers = << >>
    /\ chartPc = "idle"

\* useState of inputs: prices in quarters of a dollar (42850.50, 41920.25,
\* 45680.75), volatility in tenths (1.8)
InitialInputs ==
    [portfolio_size |-> 10000,
     risk_percentage |-> 2,
     entry_price |-> 171402,
     stop_loss |-> 167681,
     take_profit |-> 182723,
     sentiment_confidence |-> 87,
     volatility |-> 18]

\* useState<any>(null) of result
NoResult == [status |-> "null"]

\* no PositionCalculator is mounted
CalculatorIdle ==
    /\ inputs = InitialInputs
    /\ result = NoResult
    /\ calcLoading = FALSE
    /\ posts = << >>

\* useState<BacktestStats | null>(null) of stats, and no request awaited
NoStats == [stats |-> "null"]
NoRequest == [request |-> "none"]

\* BacktestResults before the first click: useState(false), useState(null),
\* useState(180); failed records that the last request ended in the catch block
BacktestInit ==
    backtest = [loading |-> FALSE, stats |-> NoStats, days |-> 180,
                request |-> NoRequest, failed |-> FALSE]

\* no useSignal(asset) instance is mounted
HookIdle ==
    hook = [asset |-> NoAsset, signal |-> None, loading |-> TRUE, fetches |-> {}]

\* the alert preferences of the model, by preference_id: enabled
PreferenceIds == {"pref-1", "pref-2"}
ServerPreferences == [id \in PreferenceIds |-> TRUE]

\* useAlerts is mounted: useState([]) of preferences, useState(true) of
\* loading, and the effect has called fetchData. fetches holds the calls of
\* fetchData in flight by their caller, patches the PATCHes in flight;
\* handled records that the refetch of the last rejected update has ended
AlertsInit ==
    alerts = [preferences |-> << >>, loading |-> TRUE, server |-> ServerPreferences,
              fetches |-> {"mount"}, patches |-> << >>, handled |-> FALSE]

\* useState<ThoughtEntry[]>([]) of both logs, useState(false) of isProcessing
ThoughtsInit == thoughts = [console |-> 0, page |-> 0, isProcessing |-> FALSE]

\* this.ws = null and globalWs = null: no socket
NoSocket == 0

\* a WebSocketManager after construction: ws = null, reconnectAttempts = 0.
\* sockets holds the readyState of every WebSocket made by connect, in the
\* order of their creation; timers counts the pending setTimeout callbacks;
\* scheduled counts the setTimeout calls since the last open event and
\* disconnected records that disconnect was the last call of the user
ManagerInit ==
    manager = [ws |-> NoSocket, sockets |-> << >>, reconnectAttempts |-> 0,
               timers |-> 0, scheduled |-> 0, disconnected |-> FALSE]

\* useWebSocket is mounted in one component: useState(globalConnected) of
\* connected, and the effect has called initGlobalWebSocket, which made the
\* first socket. timers counts the pending reconnect timeouts, current tells
\* that the one reconnectTimeoutId.current names is pending, and
\* disconnected records that disconnect was the last call of the user
GwsInit ==
    gws = [ws |-> 1, sockets |-> <<"CONNECTING">>, globalConnected |-> FALSE,
           connected |-> FALSE, timers |-> 0, current |-> FALSE,
           disconnected |-> FALSE]

\* useState('moderate'), useState(false), useState({ news: 1.0, twitter: 1.0,
\* reddit: 1.0 }) of useSettings, the weights in tenths
DefaultSettings ==
    [risk_tolerance |-> "moderate", email_notifications |-> FALSE,
     sentiment_weights |-> [news |-> 10, twitter |-> 10, reddit |-> 10]]

\* GuardianSettings and SentimentTuning are mounted, each with its own
\* useSettings: the state of the two hooks, loading of the first, the GETs
\* of the two effects in flight, the PUTs in flight and the settings the
\* server stores
SettingsInit ==
    settings = [server |-> DefaultSettings,
                guardian |-> DefaultSettings, tuning |-> DefaultSettings,
                loading |-> FALSE, gets |-> {"guardian", "tuning"}, puts |-> {}]

\* the other components and hooks before anything happened to them
PagesIdle ==
    /\ BacktestInit /\ HookIdle /\ AlertsInit /\ ThoughtsInit
    /\ ManagerInit /\ GwsInit /\ SettingsInit

Init == SignalInit /\ ChartIdle /\ CalculatorIdle /\ PagesIdle

(***************************************************************************)
(* Environment: the clock and the backend.                                 *)
(***************************************************************************)
AdvanceClock ==
    /\ now < MaxNow
    /\ now' = now + 1
    /\ UNCHANGED <<nonSignalVars, serverVars, inflight, hookVars, wsVars, cardVars>>

\* the qualifying triggers of the modelled market: asset and direction
Triggers == {<<"BTC/USDT", "BUY">>, <<"ETH/USDT", "SELL">>}

\* The generator installs a new signal for an asset and pushes it (4.4, 2).
ServerGenerate ==
    /\ nextId <= MaxSignals
    /\ Len(inflight) < MaxInflight
    /\ \E trg \in Triggers, ttl \in SignalTtls :
          LET s == GenerateSignal(nextId, trg[1], trg[2], now, ttl) IN
          /\ serverSignal' = s
          /\ inflight' = Append(inflight, [type |-> "signal", asset |-> NoAsset, data |-> s])
    /\ nextId' = nextId + 1
    /\ UNCHANGED <<nonSignalVars, now, hookVars, wsVars, cardVars>>

\* The price broadcast of the data pipeline.
ServerTick ==
    /\ Len(inflight) < MaxInflight
    /\ \E a \in Assets :
          inflight' = Append(inflight, [type |-> "price", asset |-> a, data |-> None])
    /\ UNCHANGED <<nonSignalVars, now, serverVars, hookVars, wsVars, cardVars>>

\* GET /signal/latest: the latest signal (README), absent when there is none
\* or, by section 6 of the specification, when it is no longer ACTIVE.
LatestResponses ==
    (IF serverSignal # None THEN {serverSignal} ELSE {None})
    \cup (IF serverSignal # None /\ now >= serverSignal.expires_at THEN {None} ELSE {})

(***************************************************************************)
(* useSignal                                                               *)
(***************************************************************************)
\* what fetchLatestSignal stores for a response body `data` (None: no signal)
FetchedSignal(data) == IF data # None THEN data ELSE MOCK_SIGNAL

\* fetchLatestSignal from the resolution of apiClient.get on
FetchResolve(o) ==
    /\ fetchPending[o]
    /\ \E data \in LatestResponses :
          signal' = [signal EXCEPT ![o] = FetchedSignal(data)]
    /\ loading' = [loading EXCEPT ![o] = FALSE]
    /\ fetchPending' = [fetchPending EXCEPT ![o] = FALSE]
    /\ UNCHANGED <<nonSignalVars, now, serverVars, inflight, eventHandlers, wsVars, cardVars>>

\* fetchLatestSignal when apiClient.get rejects: the catch branch
FetchReject(o) ==
    /\ fetchPending[o]
    /\ signal' = [signal EXCEPT ![o] = MOCK_SIGNAL]
    /\ loading' = [loading EXCEPT ![o] = FALSE]
    /\ fetchPending' = [fetchPending EXCEPT ![o] = FALSE]
    /\ UNCHANGED <<nonSignalVars, now, serverVars, inflight, eventHandlers, wsVars, cardVars>>

\* The event bus emits 'signal:new' with the pushed signal.
SignalNew ==
    /\ inflight # << >>
    /\ Head(inflight).type = "signal"
    /\ signal' = EmitSignal("signal:new", Head(inflight).data, signal)
    /\ inflight' = Tail(inflight)
    /\ UNCHANGED <<nonSignalVars, now, serverVars, loading, fetchPending, eventHandlers, wsVars, cardVars>>

\* globalWs.onmessage of initGlobalWebSocket
OnMessage ==
    /\ inflight # << >>
    /\ LET data == Head(inflight) IN
          /\ signal' = EmitSignal(EventOf(data.type), data, signal)
          /\ EmitMessage(data)
    /\ inflight' = Tail(inflight)
    /\ UNCHANGED <<nonSignalVars, now, serverVars, loading, fetchPending, eventHandlers, cardVars>>

(***************************************************************************)
(* TradingSignal                                                           *)
(***************************************************************************)
Max(a, b) == IF a >= b THEN a ELSE b

\* new Date(signal.expires_at).getTime(), in milliseconds
ExpiryTime(s) == s.expires_at * TickMs

\* Math.max(0, Math.floor((expiryTime - now) / 1000)) with now in milliseconds
Remaining(expiryTime, nowMs) == Max(0, (expiryTime - nowMs) \div SecondMs)

\* the timers left when the previous run of the effect is cleaned up
CleanupKeepsTimers(timers, prev) == timers

Cleanup(timers, prev) ==
    IF prev = None THEN timers ELSE {t \in timers : t.owner # prev.signal_id}

\* the countdown effect, run after a render in which `signal` has changed:
\* the previous run's cleanup, then the new run
CommitEffects ==
    /\ effectSignal # signal[Card]
    /\ intervals' =
          Cleanup(intervals, effectSignal) \cup
          (IF signal[Card] = None THEN {}
           ELSE {[owner |-> signal[Card].signal_id, expiryTime |-> ExpiryTime(signal[Card])]})
    /\ effectSignal' = signal[Card]
    /\ UNCHANGED <<nonSignalVars, now, serverVars, inflight, hookVars, wsVars, dismissed, timeLeft, lastClick>>

\* the dismissed flag after an interval callback that computed `remaining`
ExpireNever(remaining, cur) == cur

Expire(remaining, cur) == IF remaining = 0 THEN TRUE ELSE cur

\* the callback of a pending interval
IntervalFire ==
    /\ \E t \in intervals :
          LET remaining == Remaining(t.expiryTime, now * TickMs) IN
          /\ timeLeft' = remaining
          /\ dismissed' = Expire(remaining, dismissed)
    /\ UNCHANGED <<nonSignalVars, now, serverVars, inflight, hookVars, wsVars, effectSignal, intervals, lastClick>>

\* the card is rendered (the component does not return null)
CardVisible == signal[Card] # None /\ ~dismissed /\ ~loading[Card]

\* PatternRadar renders the signal's patterns (not the scanning placeholder)
RadarVisible == ~loading[Radar] /\ signal[Radar] # None

\* onClick of the Dismiss button
DismissClick ==
    /\ CardVisible
    /\ dismissed' = TRUE
    /\ lastClick' = [button |-> "dismiss", signal_id |-> signal[Card].signal_id]
    /\ UNCHANGED <<nonSignalVars, now, serverVars, inflight, hookVars, wsVars, timeLeft, effectSignal, intervals>>

\* a click on the Accept button, which has no onClick
AcceptClick ==
    /\ CardVisible
    /\ lastClick' = [button |-> "accept", signal_id |-> signal[Card].signal_id]
    /\ UNCHANGED <<nonSignalVars, now, serverVars, inflight, hookVars, wsVars, dismissed, timeLeft,
                   effectSignal, intervals>>

(***************************************************************************)
(* Specifications.                                                         *)
(*   SignalSpec   : useSignal and its consumers, driven at the event bus   *)
(*                  ('signal:new' is emitted for every pushed signal).     *)
(*   WsSignalSpec : the same, driven at the socket (onmessage routes the   *)
(*                  received messages).                                    *)
(***************************************************************************)
ClientStep ==
    \/ \E o \in Observers : FetchResolve(o)
    \/ \E o \in Observers : FetchReject(o)
    \/ CommitEffects
    \/ IntervalFire
    \/ DismissClick
    \/ AcceptClick

SignalNext == AdvanceClock \/ ServerGenerate \/ SignalNew \/ ClientStep

SignalSpec == Init /\ [][SignalNext]_vars

WsSignalNext == AdvanceClock \/ ServerGenerate \/ ServerTick \/ OnMessage \/ ClientStep

WsSignalSpec == Init /\ [][WsSignalNext]_vars

TypeOK ==
    /\ now \in 0..MaxNow
    /\ nextId \in 1..(MaxSignals + 1)
    /\ Len(inflight) <= MaxInflight
    /\ dismissed \in BOOLEAN
    /\ timeLeft \in Nat
    /\ lastClick.button \in {"none", "accept", "dismiss"}

\* setInterval fires every second and React runs the effects of a render
FairSignalSpec == SignalSpec /\ WF_vars(IntervalFire) /\ WF_vars(CommitEffects)

(***************************************************************************)
(* Properties of the signal lifecycle.                                     *)
(***************************************************************************)
\* the countdown effect has run for the signal the card holds
EffectsCommitted == effectSignal = signal[Card]

PresentedExpired == CardVisible /\ now >= signal[Card].expires_at

\* C2: a signal presented by the card whose expires_at has been reached does
\* not stay presented: eventually the card hides it (EXPIRED) or holds a
\* signal that has not expired (it was replaced).
C2_EventuallyExpired == PresentedExpired ~> ~PresentedExpired

\* the card has hidden an expired signal without any click on Dismiss
C2_Witness ==
    /\ signal[Card] # None
    /\ ~loading[Card]
    /\ now >= signal[Card].expires_at
    /\ dismissed
    /\ lastClick.button # "dismiss"

\* C3: after Accept or Dismiss is invoked on the presented signal, the signal
\* is no longer presented as ACTIVE.
C3_AcceptDismissLeaveActive == [][(AcceptClick \/ DismissClick) => ~CardVisible']_vars

\* the held signal is installed (effect run), its own countdown has not
\* reached zero at the current time
HeldSignalLive ==
    /\ signal[Card] # None
    /\ ~loading[Card]
    /\ EffectsCommitted
    /\ Remaining(ExpiryTime(signal[Card]), now * TickMs) > 0

\* C4: a signal installed after an earlier signal reached a terminal state is
\* ACTIVE: unless the user dismissed this very signal, a held signal whose
\* countdown has not run out is presented.
C4_FreshSignalActive ==
    (HeldSignalLive /\ ~(lastClick.button = "dismiss"
                         /\ lastClick.signal_id = signal[Card].signal_id))
        => CardVisible

\* C5: the expiry of an earlier signal never marks the superseding signal as
\* expired: with no Dismiss click at all, a held signal of the backend whose
\* own countdown has not run out is not flagged dismissed.
C5_ExpiryNeverHidesSuccessor ==
    (/\ HeldSignalLive
     /\ signal[Card].signal_id \in {SignalIds[n] : n \in 1..(nextId - 1)}
     /\ lastClick.button # "dismiss") => ~dismissed

\* C6: all observers of a signal agree on its lifecycle state: a signal that
\* PatternRadar shows as the current signal is not expired or dismissed for
\* the TradingSignal card holding the same signal.
C6_ObserversAgree ==
    (RadarVisible /\ ~loading[Card] /\ signal[Card] = signal[Radar]) => ~dismissed

\* C7: what useSignal returns after its fetch is a signal of the backend for
\* the requested asset, or nothing: never the mock signal.
C7_NoFabricatedSignal ==
    \A o \in Observers :
        ~fetchPending[o] =>
            \/ signal[o] = None
            \/ /\ signal[o].signal_id \in {SignalIds[n] : n \in 1..(nextId - 1)}
               /\ (asset[o] # NoAsset => signal[o].asset_code = asset[o])

\* C8: when a signal message arrives over the WebSocket, the subscriber of
\* every useSignal consumer runs and the held signal becomes the pushed one.
C8_PushedSignalHeld ==
    [][(OnMessage /\ Head(inflight).type = "signal")
          => \A o \in Observers : signal'[o] = Head(inflight).data]_vars

\* the structural invariant of a Signal (specification, section 3)
SignalInvariant(s) ==
    /\ s.action = "BUY" => (s.stop_loss < s.entry_price /\ s.entry_price < s.take_profit)
    /\ s.action = "SELL" => (s.take_profit < s.entry_price /\ s.entry_price < s.stop_loss)
    /\ s.expires_at > CreatedAt(s)

\* C9: every signal held as a current signal satisfies the structural
\* invariant of a Signal.
C9_HeldSignalsWellFormed ==
    \A o \in Observers : signal[o] # None => SignalInvariant(signal[o])

\* one consumer holds the mock signal, the other a SELL signal of the backend
C9_Witness ==
    /\ signal[Card] = MOCK_SIGNAL
    /\ signal[Radar] # None
    /\ signal[Radar].action = "SELL"

(***************************************************************************)
(* PriceChart: the divergences memo.                                       *)
(***************************************************************************)
\* longest data prop of the model
MaxLen == 4

\* default of the divergenceThreshold prop (sentiment points)
divergenceThreshold == 5
\* the price threshold written into the comparisons (percent)
PriceThreshold == 2

\* the value a sample field holds when it is NaN; no number of a sample of
\* the model is negative
NaN == 0 - 1
IsNaN(x) == x = NaN

\* the candles of the model: [close, sentiment_score], low and high around close
Candle(c, sc) == [close |-> c, low |-> c - 1, high |-> c + 1, sentiment_score |-> sc]

Candles == {Candle(100, 50), Candle(97, 56), Candle(98, 55),
            Candle(103, 44), Candle(102, 45), Candle(96, 75),
            Candle(98, 56), Candle(97, 55), Candle(103, 56),
            Candle(NaN, 50), Candle(97, NaN)}

\* the series of Scenario A: closes 100, 100, 98, 96, 95 with sentiment
\* 50, 55, 58, 75, 76
ScenarioA == <<Candle(100, 50), Candle(100, 55), Candle(98, 58),
               Candle(96, 75), Candle(95, 76)>>

\* an array of the program, indexed from 0, with the elements of a sequence
ArrayOf(seq) == [i \in 0..(Len(seq) - 1) |-> seq[i + 1]]

\* the data props of the model: every series of 0..MaxLen candles, and the
\* series of Scenario A
Windows == UNION {[0..(n - 1) -> Candles] : n \in 0..MaxLen} \cup {ArrayOf(ScenarioA)}

\* data.length
Length(d) == Cardinality(DOMAIN d)

\* priceChange = ((curr.close - prev.close) / prev.close) * 100 is NaN when
\* a close is NaN, and every comparison with NaN is false
PriceChangeIsNaN(prev, curr) == IsNaN(prev.close) \/ IsNaN(curr.close)

PriceDownInclusive(prev, curr) ==
    /\ ~PriceChangeIsNaN(prev, curr)
    /\ (curr.close - prev.close) * 100 <= (0 - PriceThreshold) * prev.close

PriceDownPoints(prev, curr) ==
    /\ ~PriceChangeIsNaN(prev, curr)
    /\ curr.close - prev.close < 0 - PriceThreshold

\* priceChange < -2 and priceChange > 2, closes positive
PriceDown(prev, curr) ==
    /\ ~PriceChangeIsNaN(prev, curr)
    /\ (curr.close - prev.close) * 100 < (0 - PriceThreshold) * prev.close
PriceUp(prev, curr) ==
    /\ ~PriceChangeIsNaN(prev, curr)
    /\ (curr.close - prev.close) * 100 > PriceThreshold * prev.close

\* sentimentChange = curr.sentiment_score - prev.sentiment_score, NaN when a
\* score is NaN
SentimentChangeIsNaN(prev, curr) == IsNaN(prev.sentiment_score) \/ IsNaN(curr.sentiment_score)
SentimentChange(prev, curr) == curr.sentiment_score - prev.sentiment_score

\* sentimentChange > divergenceThreshold and sentimentChange < -divergenceThreshold
SentimentRise(prev, curr) ==
    /\ ~SentimentChangeIsNaN(prev, curr)
    /\ SentimentChange(prev, curr) > divergenceThreshold
SentimentFall(prev, curr) ==
    /\ ~SentimentChangeIsNaN(prev, curr)
    /\ SentimentChange(prev, curr) < 0 - divergenceThreshold

RECURSIVE DivergenceLoopPriceOnly(_, _, _)
DivergenceLoopPriceOnly(d, i, acc) ==
    IF i >= Length(d) THEN acc
    ELSE LET prev == d[i - 1]
             curr == d[i]
         IN IF PriceDown(prev, curr) \/ PriceUp(prev, curr)
            THEN DivergenceLoopPriceOnly(d, i + 1,
                    Append(acc, [time |-> i, type |-> "bullish", price |-> curr.low]))
            ELSE DivergenceLoopPriceOnly(d, i + 1, acc)

\* the body of the loop for index i; a marker's time is the time of data[i],
\* which is its index in the model
RECURSIVE DivergenceLoop(_, _, _)
DivergenceLoop(d, i, acc) ==
    IF i >= Length(d) THEN acc
    ELSE LET prev == d[i - 1]
             curr == d[i]
         IN IF PriceDown(prev, curr) /\ SentimentRise(prev, curr)
            THEN DivergenceLoop(d, i + 1,
                    Append(acc, [time |-> i, type |-> "bullish", price |-> curr.low]))
            ELSE IF PriceUp(prev, curr) /\ SentimentFall(prev, curr)
            THEN DivergenceLoop(d, i + 1,
                    Append(acc, [time |-> i, type |-> "bearish", price |-> curr.high]))
            ELSE DivergenceLoop(d, i + 1, acc)

DivergencesNoMinimum(d) == DivergenceLoop(d, 1, << >>)

\* the divergences memo
Divergences(d) == IF Length(d) < 3 THEN << >> ELSE DivergenceLoop(d, 2, << >>)

\* a chart is rendered with some data prop
ChartInit ==
    /\ chartData \in Windows
    /\ markers = << >>
    /\ chartPc = "render"

\* the render computes the memo
DetectDivergences ==
    /\ chartPc = "render"
    /\ markers' = Divergences(chartData)
    /\ chartPc' = "done"
    /\ UNCHANGED <<signalVars, chartData, calcVars, pageVars>>

DivergenceInit == SignalInit /\ ChartInit /\ CalculatorIdle /\ PagesIdle

DivergenceNext == DetectDivergences

DivergenceSpec == DivergenceInit /\ [][DivergenceNext]_vars

\* a marker of the given type is reported at index i
Reported(i, type) == \E k \in 1..Len(markers) : markers[k].time = i /\ markers[k].type = type

\* C10: for a window of at least 3 samples, every consecutive pair (i-1, i),
\* i >= 1, with a price change below -2% and a sentiment change above 5
\* points has a bullish event at i, and every pair with a price change above
\* 2% and a sentiment change below -5 points has a bearish event at i.
C10_EveryQualifyingPairReported ==
    (chartPc = "done" /\ Length(chartData) >= 3) =>
        \A i \in 1..(Length(chartData) - 1) :
            /\ (PriceDown(chartData[i - 1], chartData[i]) /\ SentimentRise(chartData[i - 1], chartData[i]))
                  => Reported(i, "bullish")
            /\ (PriceUp(chartData[i - 1], chartData[i]) /\ SentimentFall(chartData[i - 1], chartData[i]))
                  => Reported(i, "bearish")

\* a marker of any type is reported at index i
Marked(i) == \E k \in 1..Len(markers) : markers[k].time = i

\* the price change of the pair is exactly -2% or +2%
AtPriceThreshold(prev, curr) ==
    /\ ~PriceChangeIsNaN(prev, curr)
    /\ \/ (curr.close - prev.close) * 100 = (0 - 2) * prev.close
       \/ (curr.close - prev.close) * 100 = 2 * prev.close

\* the sentiment change of the pair is exactly +5 or -5 points
AtSentimentThreshold(prev, curr) ==
    /\ ~SentimentChangeIsNaN(prev, curr)
    /\ SentimentChange(prev, curr) \in {5, 0 - 5}

\* C11: no divergence event is reported at an index whose pair has a price
\* change of exactly -2% or +2%, or a sentiment change of exactly +5 or -5
\* points: only strict inequalities trigger an event.
C11_NoEventAtThreshold ==
    chartPc = "done" =>
        \A i \in 1..(Length(chartData) - 1) :
            (AtPriceThreshold(chartData[i - 1], chartData[i])
                \/ AtSentimentThreshold(chartData[i - 1], chartData[i])) => ~Marked(i)

\* an examined pair whose price fell by exactly 2% while sentiment rose by
\* more than 5 points has no event, in a series that has an event elsewhere
C11_Witness ==
    /\ chartPc = "done"
    /\ \E i \in 2..(Length(chartData) - 1) :
          /\ AtPriceThreshold(chartData[i - 1], chartData[i])
          /\ SentimentRise(chartData[i - 1], chartData[i])
          /\ ~Marked(i)
    /\ markers # << >>

\* C12: for the series of Scenario A the detector reports a bullish event at
\* index 3 (price change of about -2.04%, between -2.05% and -2.04%, and a
\* sentiment change of 17 points), and no other event.
C12_ScenarioABullishAtThree ==
    (chartPc = "done" /\ chartData = ArrayOf(ScenarioA)) =>
        /\ Reported(3, "bullish")
        /\ Len(markers) = 1
        /\ SentimentChange(chartData[2], chartData[3]) = 17
        /\ (chartData[3].close - chartData[2].close) * 10000 > (0 - 205) * chartData[2].close
        /\ (chartData[3].close - chartData[2].close) * 10000 < (0 - 204) * chartData[2].close

C12_Witness ==
    /\ chartPc = "done"
    /\ chartData = ArrayOf(ScenarioA)
    /\ markers # << >>

\* C13: a series of fewer than 3 samples gives an empty result, whatever its
\* samples are.
C13_ShortSeriesEmpty ==
    (chartPc = "done" /\ Length(chartData) < 3) => markers = << >>

\* two samples whose pair would qualify as a bullish divergence
C13_Witness ==
    /\ chartPc = "done"
    /\ Length(chartData) = 2
    /\ PriceDown(chartData[0], chartData[1])
    /\ SentimentRise(chartData[0], chartData[1])
    /\ markers = << >>

\* a sample with a price and a sentiment
ValidSample(c) == ~IsNaN(c.close) /\ ~IsNaN(c.sentiment_score)

\* the indices of the valid samples from index i on, in order
RECURSIVE ValidIndices(_, _)
ValidIndices(d, i) ==
    IF i >= Length(d) THEN << >>
    ELSE IF ValidSample(d[i]) THEN <<i>> \o ValidIndices(d, i + 1)
    ELSE ValidIndices(d, i + 1)

\* the series that is left when the missing samples are excluded
Evaluated(d) ==
    LET idx == ValidIndices(d, 0)
    IN  [k \in 0..(Len(idx) - 1) |-> d[idx[k + 1]]]

\* the events of the detection over the valid samples, each at the index its
\* sample has in the data
EventsOfValidSamples(d) ==
    LET idx == ValidIndices(d, 0)
        m == Divergences(Evaluated(d))
    IN  [k \in 1..Len(m) |-> [m[k] EXCEPT !.time = idx[m[k].time + 1]]]

\* C14: samples whose price or sentiment is NaN are skipped: no event is
\* reported at the index of such a sample, and the events are those of the
\* detection over the remaining valid samples.
C14_MissingSamplesSkipped ==
    chartPc = "done" =>
        /\ \A k \in 1..Len(markers) : ValidSample(chartData[markers[k].time])
        /\ \A k \in 1..Len(EventsOfValidSamples(chartData)) :
              Reported(EventsOfValidSamples(chartData)[k].time, EventsOfValidSamples(chartData)[k].type)
        /\ Len(markers) = Len(EventsOfValidSamples(chartData))

\* every close is a number above the close before it
StrictlyRising(d) ==
    /\ \A i \in DOMAIN d : ~IsNaN(d[i].close)
    /\ \A i \in 1..(Length(d) - 1) : d[i].close > d[i - 1].close

\* every sample has the same sentiment score
FlatSentiment(d) ==
    \A i, j \in DOMAIN d :
        ~IsNaN(d[i].sentiment_score) /\ d[i].sentiment_score = d[j].sentiment_score

\* C15: for a strictly rising price series with flat sentiment (Scenario D)
\* the detector reports no bullish event.
C15_RisingFlatNoBullish ==
    (chartPc = "done" /\ StrictlyRising(chartData) /\ FlatSentiment(chartData)) =>
        \A i \in DOMAIN chartData : ~Reported(i, "bullish")

\* a rising series with flat sentiment whose examined pair moved by more than 2%
C15_Witness ==
    /\ chartPc = "done"
    /\ Length(chartData) >= 3
    /\ StrictlyRising(chartData)
    /\ FlatSentiment(chartData)
    /\ PriceUp(chartData[1], chartData[2])

(***************************************************************************)
(* PositionCalculator: the inputs, the POST to /position-calculator and    *)
(* the result. Amounts and ratios are exact fractions [n, d], d > 0.       *)
(***************************************************************************)
\* most POSTs awaited at once
MaxPosts == 1

Abs(x) == IF x < 0 THEN 0 - x ELSE x

RECURSIVE GCD(_, _)
GCD(a, b) == IF b = 0 THEN a ELSE GCD(b, a % b)

\* the number n / d in lowest terms
R(n, d) == LET g == GCD(n, d) IN [n |-> n \div g, d |-> d \div g]

RMul(a, b) ==
    LET g1 == GCD(a.n, b.d)
        g2 == GCD(b.n, a.d)
    IN  R((a.n \div g1) * (b.n \div g2), (a.d \div g2) * (b.d \div g1))
RDiv(a, b) == RMul(a, [n |-> b.d, d |-> b.n])
RAdd(a, b) == R(a.n * b.d + b.n * a.d, a.d * b.d)
RLeq(a, b) == a.n * b.d <= b.n * a.d
\* fractions in lowest terms are equal when their terms are
REq(a, b) == a.n = b.n /\ a.d = b.d

\* the default ceiling of position_size_percent
PositionCeiling == 25

\* Status: ratio >= 3 -> Excellent, >= 2 -> Good, >= 1 -> Fair, else Poor
Status(ratio) ==
    IF RLeq(R(3, 1), ratio) THEN "Excellent"
    ELSE IF RLeq(R(2, 1), ratio) THEN "Good"
    ELSE IF RLeq(R(1, 1), ratio) THEN "Fair"
    ELSE "Poor"

InvalidRiskParameters == [error |-> "InvalidRiskParameters"]

\* entry_price == stop_loss or a price <= 0
Degenerate(in) ==
    \/ in.entry_price = in.stop_loss
    \/ in.entry_price <= 0
    \/ in.stop_loss <= 0
    \/ in.take_profit <= 0

\* the sizer of the backend, for sentiment_confidence > 0
KellyPositionSizer(in) ==
    IF Degenerate(in) THEN InvalidRiskParameters
    ELSE
    LET max_loss_budget == R(in.portfolio_size * in.risk_percentage, 100)
        per_unit_risk == R(Abs(in.entry_price - in.stop_loss), 1)
        per_unit_reward == R(Abs(in.take_profit - in.entry_price), 1)
        raw_quantity == RDiv(max_loss_budget, per_unit_risk)
        scaled == RDiv(RMul(raw_quantity, R(in.sentiment_confidence, 100)),
                       RAdd(R(1, 1), R(in.volatility, 100)))
        percent(q) == RMul(RDiv(RMul(q, R(in.entry_price, 1)), R(in.portfolio_size, 1)), R(100, 1))
        quantity == IF RLeq(percent(scaled), R(PositionCeiling, 1)) THEN scaled
                    ELSE RDiv(R(in.portfolio_size * PositionCeiling, 100), R(in.entry_price, 1))
        max_loss_usd == RMul(quantity, per_unit_risk)
        max_gain_usd == RMul(quantity, per_unit_reward)
        ratio == RDiv(max_gain_usd, max_loss_usd)
    IN  [position_size_usd |-> RMul(quantity, R(in.entry_price, 1)),
         position_size_percent |-> percent(quantity),
         max_loss_usd |-> max_loss_usd,
         max_gain_usd |-> max_gain_usd,
         risk_reward_ratio |-> ratio,
         status |-> Status(ratio)]

\* the result set in the catch block of calculate
MockResult ==
    [position_size_usd |-> R(5000, 1),
     position_size_percent |-> R(50, 1),
     max_loss_usd |-> R(200, 1),
     max_gain_usd |-> R(600, 1),
     risk_reward_ratio |-> R(3, 1),
     status |-> "Good"]

\* the data prop Dashboard gives to RiskRewardFilter (ratio 3.2)
DashboardRiskReward ==
    [ratio |-> R(32, 10),
     risk_amount |-> R(500, 1),
     reward_amount |-> R(1600, 1),
     status |-> "Excellent"]

\* what the user types into the fields of the form (there is no field for
\* volatility): 100.00, 95.00 and 110.00 in quarters of a dollar, and 0
FieldValues ==
    [risk_percentage |-> {1, 2},
     entry_price |-> {171402, 400, 0},
     stop_loss |-> {167681, 380, 400},
     take_profit |-> {182723, 440},
     sentiment_confidence |-> {87, 90}]

\* the sequence without its k-th element
Without(seq, k) == SubSeq(seq, 1, k - 1) \o SubSeq(seq, k + 1, Len(seq))

\* the component is mounted: the effect of [inputs] has called calculate
CalculatorInit ==
    /\ inputs = InitialInputs
    /\ result = NoResult
    /\ calcLoading = TRUE
    /\ posts = <<InitialInputs>>

\* handleChange(field, value), then the effect of [inputs] calls calculate
HandleChange ==
    /\ Len(posts) < MaxPosts
    /\ \E field \in DOMAIN FieldValues : \E value \in FieldValues[field] :
          /\ inputs' = [inputs EXCEPT ![field] = value]
          /\ posts' = Append(posts, inputs')
    /\ calcLoading' = TRUE
    /\ UNCHANGED <<signalVars, chartVars, pageVars, result>>

\* the POST resolves: setResult(response.data.data)
CalculateResolve ==
    /\ \E k \in 1..Len(posts) :
          /\ KellyPositionSizer(posts[k]) # InvalidRiskParameters
          /\ result' = KellyPositionSizer(posts[k])
          /\ posts' = Without(posts, k)
    /\ calcLoading' = FALSE
    /\ UNCHANGED <<signalVars, chartVars, pageVars, inputs>>

\* the POST rejects (the backend is unreachable or answers with an error):
\* the catch block
CalculateReject ==
    /\ \E k \in 1..Len(posts) : posts' = Without(posts, k)
    /\ result' = MockResult
    /\ calcLoading' = FALSE
    /\ UNCHANGED <<signalVars, chartVars, pageVars, inputs>>

CalculatorNext == HandleChange \/ CalculateResolve \/ CalculateReject

MountedInit == SignalInit /\ ChartIdle /\ CalculatorInit /\ PagesIdle

CalculatorSpec == MountedInit /\ [][CalculatorNext]_vars

\* the inputs of Scenario B: prices in dollars, volatility in tenths (1.0)
ScenarioB ==
    [portfolio_size |-> 10000,
     risk_percentage |-> 2,
     entry_price |-> 100,
     stop_loss |-> 95,
     take_profit |-> 110,
     sentiment_confidence |-> 90,
     volatility |-> 10]

\* the inputs the sizer is applied to
SizerInputs ==
    [portfolio_size : {10000},
     risk_percentage : {1, 2, 5},
     entry_price : {100, 0},
     stop_loss : {95, 100, 60},
     take_profit : {110, 115},
     sentiment_confidence : {50, 90, 100},
     volatility : {0, 10, 18}]

SizerInit ==
    /\ inputs \in SizerInputs
    /\ result = NoResult
    /\ calcLoading = TRUE
    /\ posts = << >>

\* the sizer is applied to the inputs
ApplySizer ==
    /\ calcLoading
    /\ result' = KellyPositionSizer(inputs)
    /\ calcLoading' = FALSE
    /\ UNCHANGED <<signalVars, chartVars, pageVars, inputs, posts>>

SizerNext == ApplySizer

AppliedInit == SignalInit /\ ChartIdle /\ SizerInit /\ PagesIdle

SizerSpec == AppliedInit /\ [][SizerNext]_vars

\* a sizing result is held
Sized == result \notin {NoResult, InvalidRiskParameters}

\* C16: the position_size_percent of every sizing result produced or
\* presented never exceeds the ceiling (default 25%).
C16_SizeWithinCeiling ==
    Sized => RLeq(result.position_size_percent, R(PositionCeiling, 1))

\* C17: the status of every sizing or risk-reward result is the one its
\* risk_reward_ratio determines: Excellent iff ratio >= 3, Good iff
\* 2 <= ratio < 3, Fair iff 1 <= ratio < 2, Poor otherwise.
C17_StatusFollowsRatio ==
    /\ Sized => result.status = Status(result.risk_reward_ratio)
    /\ DashboardRiskReward.status = Status(DashboardRiskReward.ratio)

\* C18: for every signal held, every sizing result and every risk-reward
\* assessment shown, risk_reward_ratio equals reward / risk exactly, where
\* for a signal reward = |take_profit - entry_price| and
\* risk = |entry_price - stop_loss| (a signal's ratio is in hundredths).
C18_RatioIsRewardOverRisk ==
    /\ \A o \in Observers : signal[o] # None =>
          signal[o].risk_reward_ratio * Abs(signal[o].entry_price - signal[o].stop_loss)
              = 100 * Abs(signal[o].take_profit - signal[o].entry_price)
    /\ Sized =>
          REq(result.risk_reward_ratio, RDiv(result.max_gain_usd, result.max_loss_usd))
    /\ REq(DashboardRiskReward.ratio,
           RDiv(DashboardRiskReward.reward_amount, DashboardRiskReward.risk_amount))

\* C19: when entry_price equals stop_loss or a price is <= 0, no sizing
\* result is produced or shown for those inputs once the calculation for
\* them has ended.
C19_InvalidInputsNoResult ==
    (Degenerate(inputs) /\ posts = << >>) => result = NoResult

\* C20: Scenario B: for portfolio 10000, risk 2%, entry 100, stop 95,
\* take_profit 110, confidence 90 and volatility 1.0 the sizer yields a
\* max_loss_usd of about 200 (within 5%) and a risk_reward_ratio of exactly 2.
C20_ScenarioB ==
    (inputs = ScenarioB /\ ~calcLoading) =>
        /\ result # InvalidRiskParameters
        /\ RLeq(R(190, 1), result.max_loss_usd)
        /\ RLeq(result.max_loss_usd, R(210, 1))
        /\ REq(result.risk_reward_ratio, R(2, 1))

(***************************************************************************)
(* BacktestResults: runBacktest and the POST to /backtest/run.             *)
(***************************************************************************)
\* the options of the days select
DayOptions == {90, 180, 365}

\* what the backend answers for a request: the client sends no seed, so one
\* of several outcomes (var_95 in percent)
StatsOf(request) ==
    {[days |-> request.days, var_95 |-> v, equity_curve |-> <<request.capital, request.capital + v>>] :
        v \in {3, 4, 5}}

\* a value that tells the user of a failure
IsErrorPayload(s) == "error" \in DOMAIN s

\* the state of the page outside BacktestResults
nonBacktestVars == <<signalVars, chartVars, calcVars, hook, alerts, thoughts, manager, gws, settings>>

\* onChange of the select: setDays(Number(e.target.value))
SetDays ==
    /\ \E d \in DayOptions : backtest' = [backtest EXCEPT !.days = d]
    /\ UNCHANGED nonBacktestVars

\* a click on the button, which is disabled while loading: runBacktest up to
\* the await
RunBacktest ==
    /\ ~backtest.loading
    /\ backtest' = [backtest EXCEPT !.loading = TRUE,
                      !.request = [asset |-> "BTC-USD", days |-> backtest.days, capital |-> 10000]]
    /\ UNCHANGED nonBacktestVars

\* the POST resolves: setStats(response.data.data), then finally
BacktestResolve ==
    /\ backtest.request # NoRequest
    /\ \E st \in StatsOf(backtest.request) :
          backtest' = [backtest EXCEPT !.stats = st, !.loading = FALSE,
                         !.request = NoRequest, !.failed = FALSE]
    /\ UNCHANGED nonBacktestVars

\* the POST rejects: console.error(err), then finally
BacktestReject ==
    /\ backtest.request # NoRequest
    /\ backtest' = [backtest EXCEPT !.loading = FALSE, !.request = NoRequest, !.failed = TRUE]
    /\ UNCHANGED nonBacktestVars

BacktestNext == SetDays \/ RunBacktest \/ BacktestResolve \/ BacktestReject

BacktestSpec == Init /\ [][BacktestNext]_vars

\* C22: when a backtest request fails, runBacktest ends with loading reset
\* to false and the failure is delivered to the UI as a structured error
\* payload: the component holds a value that tells of the failure.
C22_FailureDeliveredToUi ==
    /\ backtest.request = NoRequest => ~backtest.loading
    /\ (backtest.failed /\ backtest.request = NoRequest) => IsErrorPayload(backtest.stats)

(***************************************************************************)
(* useSignal(asset): one instance of the hook whose asset argument may be  *)
(* given and may change. Each fetch in flight records the asset it was     *)
(* issued for, and whether a pushed signal was stored since it was issued. *)
(***************************************************************************)
\* most fetches in flight at once
MaxFetches == 2

\* the values of the asset argument
AssetArgs == Assets \cup {NoAsset}

\* the signals the backend pushes
PushedSignals == {GenerateSignal(1, trg[1], trg[2], 0, ttl) : trg \in Triggers, ttl \in SignalTtls}

\* the bodies the backend answers GET /signal/latest?asset=a with (None: no signal)
LatestFor(a) == {None} \cup {sg \in PushedSignals : a = NoAsset \/ sg.asset_code = a}

nonHookVars == <<signalVars, chartVars, calcVars, backtest, alerts, thoughts, manager, gws, settings>>

\* the hook is mounted: the effect has called fetchLatestSignal and on('signal:new', ...)
HookInit ==
    \E a \in AssetArgs :
        hook = [asset |-> a, signal |-> None, loading |-> TRUE,
                fetches |-> {[asset |-> a, pushedSince |-> FALSE]}]

\* the component renders the hook with another asset: the effect of
\* [on, off, asset] is cleaned up and runs again
HookSetAsset ==
    /\ Cardinality(hook.fetches) < MaxFetches
    /\ \E a \in AssetArgs \ {hook.asset} :
          hook' = [hook EXCEPT !.asset = a, !.loading = TRUE,
                     !.fetches = @ \cup {[asset |-> a, pushedSince |-> FALSE]}]
    /\ UNCHANGED nonHookVars

\* fetchLatestSignal of fetch f from the resolution of apiClient.get on
HookFetchResolve(f) ==
    /\ f \in hook.fetches
    /\ \E data \in LatestFor(f.asset) :
          hook' = [hook EXCEPT !.signal = FetchedSignal(data), !.loading = FALSE,
                     !.fetches = @ \ {f}]
    /\ UNCHANGED nonHookVars

\* fetchLatestSignal of fetch f when apiClient.get rejects
HookFetchReject(f) ==
    /\ f \in hook.fetches
    /\ hook' = [hook EXCEPT !.signal = MOCK_SIGNAL, !.loading = FALSE, !.fetches = @ \ {f}]
    /\ UNCHANGED nonHookVars

\* emit('signal:new', newSignal) reaches the handler the hook registered
HookPush(newSignal) ==
    /\ hook' = [hook EXCEPT
                  !.signal = NewSignalFor(hook.asset, newSignal, @),
                  !.fetches = IF NewSignalFor(hook.asset, newSignal, hook.signal) = newSignal
                              THEN {[f EXCEPT !.pushedSince = TRUE] : f \in @}
                              ELSE @]
    /\ UNCHANGED nonHookVars

HookFetchSettles(f) == HookFetchResolve(f) \/ HookFetchReject(f)

HookNext ==
    \/ HookSetAsset
    \/ \E f \in hook.fetches : HookFetchResolve(f)
    \/ \E f \in hook.fetches : HookFetchReject(f)
    \/ \E sg \in PushedSignals : HookPush(sg)

HookStart ==
    /\ SignalInit /\ ChartIdle /\ CalculatorIdle
    /\ BacktestInit /\ HookInit /\ AlertsInit /\ ThoughtsInit
    /\ ManagerInit /\ GwsInit /\ SettingsInit

HookSpec == HookStart /\ [][HookNext]_vars

\* C23: when useSignal is given an asset, a pushed signal whose asset_code
\* differs from it leaves the held signal unchanged; when no asset is given,
\* every pushed signal replaces the held signal.
C23_PushRespectsAsset ==
    [][\A sg \in PushedSignals : HookPush(sg) =>
          /\ (hook.asset # NoAsset /\ sg.asset_code # hook.asset) => hook'.signal = hook.signal
          /\ hook.asset = NoAsset => hook'.signal = sg]_vars

\* the hook was given an asset and holds a signal of it; a signal of the
\* other asset can be pushed
C23_Witness ==
    /\ hook.asset # NoAsset
    /\ hook.signal \in PushedSignals
    /\ hook.signal.asset_code = hook.asset
    /\ hook.fetches = {}
    /\ \E sg \in PushedSignals : sg.asset_code # hook.asset

(***************************************************************************)
(* useAlerts: fetchData and updatePreference.                              *)
(***************************************************************************)
\* most PATCHes in flight at once
MaxPatches == 1

nonAlertVars == <<signalVars, chartVars, calcVars, backtest, hook, thoughts, manager, gws, settings>>

\* prev.map(p => p.preference_id === id ? { ...p, ...updates } : p)
OptimisticUpdate(prev, id, enabled) ==
    [p \in DOMAIN prev |-> IF p = id THEN enabled ELSE prev[p]]

\* fetchData of caller c from the resolution of both GETs on
FetchDataResolve(c) ==
    /\ c \in alerts.fetches
    /\ alerts' = [alerts EXCEPT !.preferences = alerts.server, !.loading = FALSE,
                    !.fetches = @ \ {c},
                    !.handled = IF c = "revert" THEN TRUE ELSE @]
    /\ UNCHANGED nonAlertVars

\* fetchData of caller c when a GET rejects: the catch block, then finally
FetchDataReject(c) ==
    /\ c \in alerts.fetches
    /\ alerts' = [alerts EXCEPT !.loading = FALSE, !.fetches = @ \ {c},
                    !.handled = IF c = "revert" THEN TRUE ELSE @]
    /\ UNCHANGED nonAlertVars

\* updatePreference(id, {enabled}) up to the await, for a preference the
\* component lists
UpdatePreference ==
    /\ Len(alerts.patches) < MaxPatches
    /\ \E id \in DOMAIN alerts.preferences, enabled \in BOOLEAN :
          alerts' = [alerts EXCEPT
                       !.preferences = OptimisticUpdate(@, id, enabled),
                       !.patches = Append(@, [id |-> id, enabled |-> enabled]),
                       !.handled = FALSE]
    /\ UNCHANGED nonAlertVars

\* the server accepts the PATCH
PatchResolve ==
    /\ alerts.patches # << >>
    /\ LET u == Head(alerts.patches) IN
          alerts' = [alerts EXCEPT !.server = [@ EXCEPT ![u.id] = u.enabled],
                       !.patches = Tail(@)]
    /\ UNCHANGED nonAlertVars

\* the server rejects the PATCH: the catch block calls fetchData
PatchReject ==
    /\ alerts.patches # << >>
    /\ alerts' = [alerts EXCEPT !.patches = Tail(@), !.loading = TRUE,
                    !.fetches = @ \cup {"revert"}]
    /\ UNCHANGED nonAlertVars

AlertsNext ==
    \/ \E c \in alerts.fetches : FetchDataResolve(c)
    \/ \E c \in alerts.fetches : FetchDataReject(c)
    \/ UpdatePreference
    \/ PatchResolve
    \/ PatchReject

AlertsSpec == Init /\ [][AlertsNext]_vars

\* C24: if the server rejects an alert-preference update, then once the
\* error handling has ended the local preferences equal the server's,
\* whatever the outcome of the refetch.
C24_RejectedUpdateReverted ==
    (alerts.handled /\ alerts.fetches = {} /\ alerts.patches = << >>) =>
        alerts.preferences = alerts.server

(***************************************************************************)
(* The AI-thought logs of SentiQuantConsole and SentiQuantPage. A log is   *)
(* kept by its length: no operation reads the entries.                     *)
(***************************************************************************)
\* longest log of the model
MaxThoughts == 52

\* the lengths of thought_chain in a reply (0: no thought_chain)
ChainLengths == {0, 1, 3}

Min(a, b) == IF a <= b THEN a ELSE b

\* the length of prev.slice(-k) for a log of length n, and of [...prev, x]
SliceLast(n, k) == Min(n, k)

nonThoughtVars == <<signalVars, chartVars, calcVars, backtest, hook, alerts, manager, gws, settings>>

\* lastMessage becomes a message of type 'ai_thought': the effect of both
\* components runs setThoughts(prev => [...prev.slice(-49), newThought])
AiThought ==
    /\ thoughts' = [thoughts EXCEPT !.console = SliceLast(@, 49) + 1,
                                    !.page = SliceLast(@, 49) + 1]
    /\ UNCHANGED nonThoughtVars

\* handleSend up to the await, for a non-empty input
HandleSend ==
    /\ ~thoughts.isProcessing
    /\ thoughts.page < MaxThoughts
    /\ thoughts' = [thoughts EXCEPT !.page = @ + 1, !.isProcessing = TRUE]
    /\ UNCHANGED nonThoughtVars

\* the POST to /xai/chat resolves:
\* setThoughts(prev => [...prev, ...newThoughts].slice(-50)) if there is a
\* thought_chain, then finally
ChatReply ==
    /\ thoughts.isProcessing
    /\ \E k \in ChainLengths :
          thoughts' = [thoughts EXCEPT
                         !.page = IF k = 0 THEN @ ELSE SliceLast(@ + k, 50),
                         !.isProcessing = FALSE]
    /\ UNCHANGED nonThoughtVars

\* the POST rejects: the catch block adds the ERROR entry, then finally
ChatError ==
    /\ thoughts.isProcessing
    /\ thoughts.page < MaxThoughts
    /\ thoughts' = [thoughts EXCEPT !.page = @ + 1, !.isProcessing = FALSE]
    /\ UNCHANGED nonThoughtVars

ThoughtsNext == AiThought \/ HandleSend \/ ChatReply \/ ChatError

ThoughtsSpec == Init /\ [][ThoughtsNext]_vars

\* the number of entries the logs are meant to keep
ThoughtLimit == 50

\* C25: the AI-thought log never holds more than 50 entries, after any
\* sequence of WebSocket thoughts, chat sends, chat replies and chat errors.
C25_LogAtMostFifty ==
    thoughts.console <= ThoughtLimit /\ thoughts.page <= ThoughtLimit

(***************************************************************************)
(* WebSocketManager: connect, the events of its sockets, attemptReconnect  *)
(* and disconnect.                                                         *)
(***************************************************************************)

\* the number of WebSockets the manager makes in a run
MaxSockets == 6

\* private maxReconnectAttempts = 5
maxReconnectAttempts == 5

nonManagerVars == <<signalVars, chartVars, calcVars, backtest, hook, alerts, thoughts, gws, settings>>

SocketIds == 1..MaxSockets

\* a socket whose close event is still to come
Live(sockets, k) ==
    k \in DOMAIN sockets /\ sockets[k] \in {"CONNECTING", "OPEN", "CLOSING"}

\* attemptReconnect without the test of reconnectAttempts
attemptReconnectAlways(m) ==
    [m EXCEPT !.reconnectAttempts = @ + 1, !.timers = @ + 1, !.scheduled = @ + 1]

\* attemptReconnect(): under the limit, reconnectAttempts++ and
\* setTimeout(() => this.connect().catch(console.error), delay)
attemptReconnect(m) ==
    IF m.reconnectAttempts < maxReconnectAttempts
    THEN [m EXCEPT !.reconnectAttempts = @ + 1, !.timers = @ + 1, !.scheduled = @ + 1]
    ELSE m

\* the body of connect(): this.ws = new WebSocket(...), handlers attached
connect(m) ==
    [m EXCEPT !.sockets = Append(@, "CONNECTING"), !.ws = Len(m.sockets) + 1]

\* the user calls connect()
ManagerConnect ==
    /\ Len(manager.sockets) < MaxSockets
    /\ manager' = [connect(manager) EXCEPT !.disconnected = FALSE]
    /\ UNCHANGED nonManagerVars

\* a timeout set by attemptReconnect fires: this.connect()
ManagerReconnect ==
    /\ manager.timers > 0
    /\ Len(manager.sockets) < MaxSockets
    /\ manager' = [connect(manager) EXCEPT !.timers = @ - 1]
    /\ UNCHANGED nonManagerVars

\* ws.onopen of socket k: this.reconnectAttempts = 0; resolve()
SocketOpens(k) ==
    /\ k \in DOMAIN manager.sockets
    /\ manager.sockets[k] = "CONNECTING"
    /\ manager' = [manager EXCEPT !.sockets[k] = "OPEN", !.reconnectAttempts = 0,
                                  !.scheduled = 0]
    /\ UNCHANGED nonManagerVars

\* socket k fails or ends: ws.onerror rejects the promise of connect (when
\* the socket never opened), then ws.onclose calls this.attemptReconnect()
SocketCloses(k) ==
    /\ Live(manager.sockets, k)
    /\ manager' = attemptReconnect([manager EXCEPT !.sockets[k] = "CLOSED"])
    /\ UNCHANGED nonManagerVars

\* disconnect(): if (this.ws) { this.ws.close(); this.ws = null; }
\* close() starts the closing handshake of a socket that has not closed
ManagerDisconnect ==
    /\ manager' = IF manager.ws = NoSocket
                  THEN [manager EXCEPT !.disconnected = TRUE]
                  ELSE [manager EXCEPT
                          !.sockets[manager.ws] = IF @ = "CLOSED" THEN @ ELSE "CLOSING",
                          !.ws = NoSocket,
                          !.disconnected = TRUE]
    /\ UNCHANGED nonManagerVars

ManagerNext ==
    \/ ManagerConnect
    \/ ManagerReconnect
    \/ \E k \in SocketIds : SocketOpens(k)
    \/ \E k \in SocketIds : SocketCloses(k)
    \/ ManagerDisconnect

ManagerSpec == Init /\ [][ManagerNext]_vars

\* C26: reconnectAttempts never exceeds maxReconnectAttempts, no more than
\* maxReconnectAttempts reconnects are scheduled without an open event in
\* between, and every open event resets reconnectAttempts to 0.
C26_ReconnectsLimited ==
    [][/\ manager'.reconnectAttempts <= maxReconnectAttempts
       /\ manager'.scheduled <= maxReconnectAttempts
       /\ \A k \in SocketIds : SocketOpens(k) => manager'.reconnectAttempts = 0]_vars

\* the limit is reached and stops a reconnect: the sixth socket has closed
\* after five reconnects and no timer is pending
C26_Witness ==
    /\ manager.reconnectAttempts = maxReconnectAttempts
    /\ manager.timers = 0
    /\ Len(manager.sockets) = maxReconnectAttempts + 1
    /\ \A k \in DOMAIN manager.sockets : manager.sockets[k] = "CLOSED"

\* C27: after disconnect no socket is made before the user calls connect
\* again, and the close event of a socket that disconnect closed schedules
\* no reconnect.
C27_NoReconnectAfterDisconnect ==
    [][/\ (manager.disconnected /\ manager'.disconnected) =>
              Len(manager'.sockets) = Len(manager.sockets)
       /\ \A k \in SocketIds :
              (SocketCloses(k) /\ manager.sockets[k] = "CLOSING") =>
                  manager'.timers = manager.timers]_vars

(***************************************************************************)
(* useWebSocket: initGlobalWebSocket, the events of the global sockets,    *)
(* the reconnect timeouts, connect and disconnect of the hook.             *)
(***************************************************************************)

\* the number of WebSockets initGlobalWebSocket makes in a run
MaxGlobalSockets == 4

nonGwsVars == <<signalVars, chartVars, calcVars, backtest, hook, alerts, thoughts, manager, settings>>

GlobalSocketIds == 1..MaxGlobalSockets

\* globalWs is a socket whose readyState is st
GlobalWsIs(g, st) == g.ws # NoSocket /\ g.sockets[g.ws] = st

\* initGlobalWebSocket(): nothing while globalWs is OPEN or CONNECTING,
\* else globalWs = new WebSocket(url) with the four handlers
initGlobalWebSocket(g) ==
    IF GlobalWsIs(g, "OPEN") \/ GlobalWsIs(g, "CONNECTING")
    THEN g
    ELSE [g EXCEPT !.sockets = Append(@, "CONNECTING"), !.ws = Len(g.sockets) + 1]

\* the user calls connect() of the hook
GwsConnect ==
    /\ Len(gws.sockets) < MaxGlobalSockets
    /\ gws' = [initGlobalWebSocket(gws) EXCEPT !.disconnected = FALSE]
    /\ UNCHANGED nonGwsVars

\* a reconnect timeout fires: the one reconnectTimeoutId.current names
\* (isCurrent) or an older one; its callback calls initGlobalWebSocket()
GwsReconnect(isCurrent) ==
    /\ IF isCurrent THEN gws.current ELSE gws.timers > (IF gws.current THEN 1 ELSE 0)
    /\ Len(gws.sockets) < MaxGlobalSockets
    /\ gws' = [initGlobalWebSocket(gws) EXCEPT
                 !.timers = @ - 1,
                 !.current = IF isCurrent THEN FALSE ELSE @]
    /\ UNCHANGED nonGwsVars

\* onopen of socket k: globalConnected = true; emit('connect', {}), and
\* handleConnect of the hook calls setConnected(true)
GwsOpens(k) ==
    /\ k \in DOMAIN gws.sockets
    /\ gws.sockets[k] = "CONNECTING"
    /\ gws' = [gws EXCEPT !.sockets[k] = "OPEN", !.globalConnected = TRUE,
                          !.connected = TRUE]
    /\ UNCHANGED nonGwsVars

\* onclose of socket k: globalConnected = false; emit('disconnect', {}), so
\* handleDisconnect calls setConnected(false); then
\* reconnectTimeoutId.current = setTimeout(..., 5000)
GwsCloses(k) ==
    /\ Live(gws.sockets, k)
    /\ gws' = [gws EXCEPT !.sockets[k] = "CLOSED", !.globalConnected = FALSE,
                          !.connected = FALSE, !.timers = @ + 1, !.current = TRUE]
    /\ UNCHANGED nonGwsVars

\* disconnect() of the hook: clearTimeout(reconnectTimeoutId.current),
\* globalWs.close(), globalWs = null, globalConnected = false,
\* setConnected(false)
GwsDisconnect ==
    /\ gws' = [gws EXCEPT
                 !.timers = IF gws.current THEN @ - 1 ELSE @,
                 !.current = FALSE,
                 !.sockets = IF gws.ws = NoSocket \/ @[gws.ws] = "CLOSED"
                             THEN @ ELSE [@ EXCEPT ![gws.ws] = "CLOSING"],
                 !.ws = NoSocket,
                 !.globalConnected = FALSE,
                 !.connected = FALSE,
                 !.disconnected = TRUE]
    /\ UNCHANGED nonGwsVars

GwsNext ==
    \/ GwsConnect
    \/ \E isCurrent \in BOOLEAN : GwsReconnect(isCurrent)
    \/ \E k \in GlobalSocketIds : GwsOpens(k)
    \/ \E k \in GlobalSocketIds : GwsCloses(k)
    \/ GwsDisconnect

GwsSpec == Init /\ [][GwsNext]_vars

\* C27 for the hook: after disconnect() of useWebSocket no socket is made
\* before connect is called again, and the close event of the socket that
\* disconnect closed sets no reconnect timeout.
C27_HookNoReconnectAfterDisconnect ==
    [][/\ (gws.disconnected /\ gws'.disconnected) =>
              Len(gws'.sockets) = Len(gws.sockets)
       /\ \A k \in GlobalSocketIds :
              (GwsCloses(k) /\ gws.sockets[k] = "CLOSING") =>
                  gws'.timers = gws.timers]_vars

\* C28: globalConnected and connected of the hook are true exactly when
\* globalWs is a socket that is open.
C28_ConnectedIffOpen ==
    /\ gws.globalConnected = GlobalWsIs(gws, "OPEN")
    /\ gws.connected = GlobalWsIs(gws, "OPEN")

\* C29: in useSignal(asset) a fetch that settles after a push was applied,
\* or that was issued for an asset the hook no longer has, leaves the held
\* signal as it is.
C29_StaleFetchIgnored ==
    [][\A f \in hook.fetches :
          (HookFetchSettles(f) /\ (f.pushedSince \/ f.asset # hook.asset)) =>
              hook'.signal = hook.signal]_vars

(***************************************************************************)
(* useSettings in GuardianSettings and in SentimentTuning.                 *)
(***************************************************************************)

\* the number of PUT /settings requests in flight
MaxPuts == 2

nonSettingsVars == <<signalVars, chartVars, calcVars, backtest, hook, alerts, thoughts, manager, gws>>

\* the ids of the options of GuardianSettings
RiskLevels == {"conservative", "moderate", "aggressive"}

\* the sliders of SentimentTuning and the values they are moved to, in tenths
Sources == {"news", "twitter", "reddit"}
SliderValues == {15}

SettingNames == {"risk_tolerance", "email_notifications", "sentiment_weights"}

\* updateSettings(risk, email, weights) up to the await: setLoading(true) and
\* the PUT of the three values; field names the setting the caller changes
SendPut(s, from, field, body) ==
    [s EXCEPT !.puts = @ \cup {[from |-> from, field |-> field, body |-> body]},
              !.loading = IF from = "guardian" THEN TRUE ELSE @]

\* onClick of an option: updateRiskTolerance(opt.id), that is
\* updateSettings(level, emailEnabled, sentimentWeights)
UpdateRiskTolerance ==
    /\ ~settings.loading
    /\ Cardinality(settings.puts) < MaxPuts
    /\ \E level \in RiskLevels :
          settings' = SendPut(settings, "guardian", "risk_tolerance",
                              [settings.guardian EXCEPT !.risk_tolerance = level])
    /\ UNCHANGED nonSettingsVars

\* onClick of the toggle: updateSettings(riskTolerance, !emailEnabled, sentimentWeights)
ToggleEmail ==
    /\ ~settings.loading
    /\ Cardinality(settings.puts) < MaxPuts
    /\ settings' = SendPut(settings, "guardian", "email_notifications",
                           [settings.guardian EXCEPT !.email_notifications = ~@])
    /\ UNCHANGED nonSettingsVars

\* handleSliderChange(source, value): updateWeights({ ...sentimentWeights,
\* [source]: value }), that is updateSettings(riskTolerance, emailEnabled, newWeights)
HandleSliderChange ==
    /\ Cardinality(settings.puts) < MaxPuts
    /\ \E source \in Sources, value \in SliderValues :
          settings' = SendPut(settings, "tuning", "sentiment_weights",
                              [settings.tuning EXCEPT !.sentiment_weights[source] = value])
    /\ UNCHANGED nonSettingsVars

\* PUT /settings with a body of the three settings: the server stores them
StoreSettings(stored, body) == body

\* the server stores the body of PUT p and updateSettings goes on after the
\* await: setRiskTolerance, setEmailEnabled, setSentimentWeights, setLoading(false)
PutResolve(p) ==
    /\ p \in settings.puts
    /\ settings' = [settings EXCEPT
                      !.server = StoreSettings(@, p.body),
                      ![p.from] = p.body,
                      !.loading = IF p.from = "guardian" THEN FALSE ELSE @,
                      !.puts = @ \ {p}]
    /\ UNCHANGED nonSettingsVars

\* PUT p is rejected: the catch block logs, then setLoading(false)
PutReject(p) ==
    /\ p \in settings.puts
    /\ settings' = [settings EXCEPT
                      !.loading = IF p.from = "guardian" THEN FALSE ELSE @,
                      !.puts = @ \ {p}]
    /\ UNCHANGED nonSettingsVars

\* fetchSettings of component c after the await: the three setters with
\* the settings of the response
GetResolve(c) ==
    /\ c \in settings.gets
    /\ settings' = [settings EXCEPT ![c] = settings.server, !.gets = @ \ {c}]
    /\ UNCHANGED nonSettingsVars

\* the GET of component c is rejected: the catch block logs
GetReject(c) ==
    /\ c \in settings.gets
    /\ settings' = [settings EXCEPT !.gets = @ \ {c}]
    /\ UNCHANGED nonSettingsVars

SettingsNext ==
    \/ UpdateRiskTolerance
    \/ ToggleEmail
    \/ HandleSliderChange
    \/ \E p \in settings.puts : PutResolve(p)
    \/ \E p \in settings.puts : PutReject(p)
    \/ \E c \in settings.gets : GetResolve(c)
    \/ \E c \in settings.gets : GetReject(c)

SettingsSpec == Init /\ [][SettingsNext]_vars

\* C30: when the server handles the PUT of an update of one setting, the
\* other two settings it stores stay as they are.
C30_OtherSettingsKept ==
    [][\A p \in settings.puts :
          PutResolve(p) =>
              \A name \in SettingNames \ {p.field} :
                  settings'.server[name] = settings.server[name]]_vars

=============================================================================
